---- MODULE Spec2Model ----
(***************************************************************************)
(* pocketcron (src/src/main.rs): a crontab loader, a single polling        *)
(* scheduler loop and one thread per dispatched job execution.             *)
(*                                                                         *)
(* Text is a sequence of one-character strings.  Time is counted in ticks  *)
(* of which TicksPerMinute make one minute; an optional value (Rust's      *)
(* Option<T>) is a sequence of length 0 (None) or 1 (Some).                *)
(***************************************************************************)
EXTENDS Integers, Sequences, FiniteSets, Bags, TLC

\* ------------------------------------------------------------------ bounds

\* Clock readings (Local::now()) range over 0..MaxNow.
MaxNow == 6
\* Resolution of the clock: ticks per minute.
TicksPerMinute == 2
\* Last tick of the schedule engine's calendar: no fire time lies after it.
CalendarEnd == 6
\* Threads of one job that may exist at the same time.
MaxUnits == 2

\* ------------------------------------------------------------------ options

None == <<>>
Some(x) == <<x>>
IsSome(o) == o # <<>>
Get(o) == o[1]

\* ------------------------------------------------------------------ text

IsWs(c) == c \in {" ", "\t"}

\* str::trim: s without its leading and trailing whitespace.
Trim(s) ==
  LET solid == {i \in 1..Len(s) : ~IsWs(s[i])}
  IN IF solid = {} THEN <<>>
     ELSE SubSeq(s, CHOOSE i \in solid : \A k \in solid : i <= k,
                    CHOOSE i \in solid : \A k \in solid : k <= i)

\* str::starts_with(char)
StartsWith(s, c) == s # <<>> /\ Head(s) = c

\* Positions (1-based) at which a whitespace-separated token of s begins.
TokenStarts(s) ==
  {i \in 1..Len(s) : ~IsWs(s[i]) /\ (i = 1 \/ IsWs(s[i - 1]))}

\* Last position of the token that begins at position i.
TokenEnd(s, i) ==
  CHOOSE e \in i..Len(s) :
    /\ \A k \in i..e : ~IsWs(s[k])
    /\ (e = Len(s) \/ IsWs(s[e + 1]))

\* Position at which token n (counted from 0) of s begins.
TokenStart(s, n) ==
  CHOOSE i \in TokenStarts(s) : Cardinality({k \in TokenStarts(s) : k < i}) = n

\* str::split_whitespace().nth(n), as the byte offset of the token found
\* (token.as_ptr() - line.as_ptr()); None when there are not n+1 tokens.
NthTokenOffset(s, n) ==
  IF Cardinality(TokenStarts(s)) <= n THEN None
  ELSE Some(TokenStart(s, n) - 1)

\* str::split_whitespace() collected: the tokens of s, in order.
SplitWhitespace(s) ==
  [n \in 1..Cardinality(TokenStarts(s)) |->
     SubSeq(s, TokenStart(s, n - 1), TokenEnd(s, TokenStart(s, n - 1)))]

\* Mutant of CommandStart: the last token of the schedule is taken for the
\* command.
CommandStartOneShort(line) ==
  IF StartsWith(line, "@") THEN NthTokenOffset(line, 0)
  ELSE NthTokenOffset(line, 4)

\* Offset of the command within the trimmed line (main.rs 110-114).
CommandStart(line) ==
  IF StartsWith(line, "@") THEN NthTokenOffset(line, 1)
  ELSE NthTokenOffset(line, 5)

\* &line[..command_start]
ScheduleText(line, cs) == SubSeq(line, 1, cs)

\* Mutant of CommandText: the tokens of the command, joined by one space.
CommandTextJoined(line, cs) ==
  LET toks == SplitWhitespace(SubSeq(line, cs + 1, Len(line)))
      spaced == [n \in 1..Len(toks) |-> IF n = 1 THEN toks[n] ELSE <<" ">> \o toks[n]]
      F[n \in 0..Len(toks)] == IF n = 0 THEN <<>> ELSE F[n - 1] \o spaced[n]
  IN F[Len(toks)]

\* line[command_start..].to_owned()
CommandText(line, cs) == SubSeq(line, cs + 1, Len(line))

\* The expression handed to the schedule engine (main.rs 127-132).
Normalize(schedule) ==
  IF StartsWith(schedule, "@") THEN schedule
  ELSE <<"0", " ">> \o schedule \o <<" ", "*">>

\* ------------------------------------------------------------------ schedule engine
\* The cron crate is an external collaborator.  The model's engine reads the
\* fragment of its grammar the inputs use: the alias @hourly, and expressions
\* of seven fields (seconds minutes hours day-of-month month day-of-week
\* year) whose seconds and minutes are "*" or "0" and whose other fields are
\* "*".  Surrounding whitespace is ignored.  A schedule is the record of its
\* seconds and minutes fields.

AliasHourly == <<"@", "h", "o", "u", "r", "l", "y">>

FieldOk(tok, pos) ==
  \/ tok = <<"*">>
  \/ tok = <<"0">> /\ pos \in {1, 2}

\* str::parse::<cron::Schedule>(): Some(schedule), or None for a parse error.
ParseSchedule(text) ==
  LET toks == SplitWhitespace(text)
  IN IF toks = <<>> THEN None
     ELSE IF StartsWith(toks[1], "@")
       THEN IF Len(toks) = 1 /\ toks[1] = AliasHourly
              THEN Some([second |-> "0", minute |-> "0"])
              ELSE None
     ELSE IF Len(toks) = 7 /\ \A p \in 1..7 : FieldOk(toks[p], p)
       THEN Some([second |-> toks[1][1], minute |-> toks[2][1]])
       ELSE None

\* The window of the model starts one minute before a full hour.
MinuteOfHour(t) == (59 + (t \div TicksPerMinute)) % 60

\* Whether the schedule fires at tick t.
Fires(sched, t) ==
  /\ t <= CalendarEnd
  /\ IF sched.second = "0" THEN t % TicksPerMinute = 0 ELSE TRUE
  /\ IF sched.minute = "0" THEN MinuteOfHour(t) = 0 ELSE TRUE

\* Schedule::next_after: the first fire time strictly after t, if any.
NextAfter(sched, t) ==
  LET later == {u \in (t + 1)..CalendarEnd : Fires(sched, u)}
  IN IF later = {} THEN None
     ELSE Some(CHOOSE u \in later : \A v \in later : u <= v)

\* Schedule::after_owned(now): a cursor, the schedule and the last time
\* yielded.
AfterOwned(sched, t) == [schedule |-> sched, previous |-> t]

\* OwnedScheduleIterator::next: the value drawn.
CursorNext(cur) == NextAfter(cur.schedule, cur.previous)

\* OwnedScheduleIterator::next: the cursor after the draw.
CursorAdvance(cur) ==
  LET n == CursorNext(cur)
  IN IF IsSome(n) THEN [cur EXCEPT !.previous = Get(n)] ELSE cur

\* ------------------------------------------------------------------ inputs
\* A crontab argument: whether fs::File::open succeeds, and what
\* BufReader::lines yields, each item a line read (text) or a read error.

Readable(text) == [ok |-> TRUE, text |-> text]
ReadError == [ok |-> FALSE, text |-> <<>>]
File(lines) == [openable |-> TRUE, lines |-> lines]
Unopenable == [openable |-> FALSE, lines |-> <<>>]

\* "* * * * * a  b"
LnMinutely == <<"*", " ", "*", " ", "*", " ", "*", " ", "*", " ", "a", " ", " ", "b">>
\* "@hourly a"
LnHourly == AliasHourly \o <<" ", "a">>
\* "0 * * * * a"
LnMinuteZero == <<"0", " ", "*", " ", "*", " ", "*", " ", "*", " ", "a">>
\* "# c"
LnComment == <<"#", " ", "c">>
\* ""
LnBlank == <<>>
\* "* * * * a": four fields and a command
LnFourFields == <<"*", " ", "*", " ", "*", " ", "*", " ", "a">>
\* "x * * * * a": the engine rejects the minutes field
LnBadField == <<"x", " ", "*", " ", "*", " ", "*", " ", "*", " ", "a">>

\* "* * * * *": five fields and no command
LnNoCommand == <<"*", " ", "*", " ", "*", " ", "*", " ", "*">>
\* "@hourly ": an alias and no command
LnLoneAlias == AliasHourly \o <<" ">>

\* Two files that make two jobs.
TwoJobs ==
  <<File(<<Readable(LnMinutely)>>), File(<<Readable(LnBlank), Readable(LnMinuteZero)>>)>>

\* The argument lists the scheduler is run on.
ArgMenu ==
  { <<>>,
    <<File(<<Readable(LnMinutely)>>)>>,
    <<File(<<Readable(LnComment), Readable(LnHourly)>>)>>,
    TwoJobs,
    <<File(<<Readable(LnMinutely), Readable(LnFourFields)>>)>>,
    <<File(<<Readable(LnHourly)>>), File(<<Readable(LnBadField)>>)>>,
    <<File(<<Readable(LnMinutely), ReadError>>)>>,
    <<File(<<Readable(LnMinutely)>>), Unopenable>> }

\* Lines for the loader alone: a schedule (five fields, four fields or an
\* alias), a command or none, one kind of whitespace between the tokens, and
\* whitespace around the line or none.
ScheduleMenu ==
  { <<<<"*">>, <<"*">>, <<"*">>, <<"*">>, <<"*">>>>,
    <<<<"0">>, <<"*">>, <<"*">>, <<"*">>, <<"*">>>>,
    <<<<"x">>, <<"*">>, <<"*">>, <<"*">>, <<"*">>>>,
    <<<<"*">>, <<"*">>, <<"*">>, <<"*">>>>,
    <<AliasHourly>>,
    <<<<"@", "x">>>> }

CommandMenu == {<<>>, <<"a">>, <<"a", " ", " ", "b">>, <<"a", "\t", "b">>}

GapMenu == {<<" ">>, <<"\t">>, <<" ", " ">>}

MarginMenu == {<<>>, <<" ">>}

RECURSIVE Join(_, _)
Join(toks, gap) ==
  IF Len(toks) = 1 THEN toks[1]
  ELSE toks[1] \o gap \o Join(Tail(toks), gap)

LineMenu ==
  { lead \o Join(sch, gap) \o (IF cmd = <<>> THEN <<>> ELSE gap \o cmd) \o trail :
      lead \in MarginMenu, sch \in ScheduleMenu, gap \in GapMenu,
      cmd \in CommandMenu, trail \in MarginMenu }
  \cup {LnBlank, LnComment, <<" ", "\t">>, <<" ", "#">>}

ShortMenu ==
  {LnMinutely, LnHourly, LnMinuteZero, LnComment, LnBlank, LnFourFields, LnBadField,
   LnNoCommand, LnLoneAlias}

\* The argument lists the loader is run on.
LoaderMenu ==
  ArgMenu
  \cup {<<File(<<Readable(l)>>)>> : l \in LineMenu}
  \cup {<<File(<<Readable(l), Readable(m)>>)>> : l \in ShortMenu, m \in ShortMenu}
  \cup {<<File(<<Readable(l)>>), File(<<Readable(m)>>)>> : l \in ShortMenu, m \in ShortMenu}

\* ------------------------------------------------------------------ state

VARIABLES
  crontabs,   \* the files named by the arguments (never changes)
  pc,         \* where the main thread is
  fi,         \* load: index of the argument being loaded
  li,         \* load: index of the next item of lines() (line_no + 1)
  loadNow,    \* load_jobs: its `now`
  jobs,       \* the job table: a sequence of Job records
  lock,       \* per job, who holds its Mutex
  units,      \* per job, the bag of the live threads spawned by run_job
  now,        \* main loop: `now`
  next_min,   \* main loop: `next_min`
  ji,         \* main loop: index of the job the for loop is at
  delay,      \* main loop: the duration passed to thread::sleep
  exitCode,   \* Some(status) once the process has exited
  diag,       \* the fatal diagnostic printed, if any
  last,       \* history: per job, the fire time last dispatched and the
              \* `now` of that iteration
  runs        \* history: per job, dispatches in the current iteration

vars == <<crontabs, pc, fi, li, loadNow, jobs, lock, units, now, next_min,
          ji, delay, exitCode, diag, last, runs>>

loadVars == <<fi, li, loadNow>>
loopVars == <<now, next_min, ji, delay>>
histVars == <<last, runs>>

\* Mutex holders.
Unlocked == <<>>
ByMain == <<"main">>
ByUnit == <<"unit">>

\* Bags of threads: one more, one fewer, one changed.
Plus(b, u) == b (+) SetToBag({u})
Minus(b, u) == b (-) SetToBag({u})
Becomes(b, u, v) == Plus(Minus(b, u), v)

Minute == TicksPerMinute

\* The state when main is entered, with arguments of the menu.
Entered(menu) ==
  /\ crontabs \in menu
  /\ pc = "start"
  /\ fi = 0
  /\ li = 0
  /\ loadNow = 0
  /\ jobs = <<>>
  /\ lock = <<>>
  /\ units = <<>>
  /\ now = 0
  /\ next_min = 0
  /\ ji = 0
  /\ delay = 0
  /\ exitCode = None
  /\ diag = None
  /\ last = <<>>
  /\ runs = <<>>

Init == Entered(ArgMenu)

\* ------------------------------------------------------------------ main: startup

\* exit(1) after a diagnostic.
Die(d) ==
  /\ pc' = "exited"
  /\ exitCode' = Some(1)
  /\ diag' = Some(d)

\* main.rs 31-35
Usage ==
  /\ pc = "start"
  /\ Len(crontabs) = 0
  /\ Die([kind |-> "usage", file |-> 0, line |-> 0])
  /\ UNCHANGED <<crontabs, loadVars, jobs, lock, units, loopVars, histVars>>

\* main.rs 37-38: the first argument
Start ==
  /\ pc = "start"
  /\ Len(crontabs) > 0
  /\ pc' = "open"
  /\ fi' = 1
  /\ UNCHANGED <<crontabs, li, loadNow, jobs, lock, units, loopVars,
                 exitCode, diag, histVars>>

\* main.rs 82-91: open failed
LoadOpenFail ==
  /\ pc = "open"
  /\ ~crontabs[fi].openable
  /\ Die([kind |-> "open failed", file |-> fi, line |-> 0])
  /\ UNCHANGED <<crontabs, loadVars, jobs, lock, units, loopVars, histVars>>

\* main.rs 82-91: the file is open, `now` is read
LoadOpen ==
  /\ pc = "open"
  /\ crontabs[fi].openable
  /\ \E t \in 0..MaxNow : loadNow' = t
  /\ li' = 1
  /\ pc' = "read"
  /\ UNCHANGED <<crontabs, fi, jobs, lock, units, loopVars, exitCode, diag,
                 histVars>>

\* The item lines() yields next, and the trimmed line.
Item == crontabs[fi].lines[li]
AtItem == pc = "read" /\ li <= Len(crontabs[fi].lines)
Line == Trim(Item.text)
Ignored(line) == line = <<>> \/ StartsWith(line, "#")

\* main.rs 92, 151, 38-40: end of the file, load_jobs returns (its locals
\* are gone); the next argument, or the loop
LoadEof ==
  /\ pc = "read"
  /\ li > Len(crontabs[fi].lines)
  /\ IF fi < Len(crontabs)
       THEN pc' = "open" /\ fi' = fi + 1
       ELSE pc' = "loop" /\ fi' = 0
  /\ li' = 0
  /\ loadNow' = 0
  /\ UNCHANGED <<crontabs, jobs, lock, units, loopVars, exitCode, diag,
                 histVars>>

\* main.rs 93-99
LoadReadFail ==
  /\ AtItem
  /\ ~Item.ok
  /\ Die([kind |-> "read failed", file |-> fi, line |-> 0])
  /\ UNCHANGED <<crontabs, loadVars, jobs, lock, units, loopVars, histVars>>

\* main.rs 101-105
LoadSkip ==
  /\ AtItem
  /\ Item.ok
  /\ Ignored(Line)
  /\ li' = li + 1
  /\ UNCHANGED <<crontabs, pc, fi, loadNow, jobs, lock, units, loopVars,
                 exitCode, diag, histVars>>

\* Mutant of LoadNotEnough: the line is reported and skipped.
LoadNotEnoughSkips ==
  /\ AtItem
  /\ Item.ok
  /\ ~Ignored(Line)
  /\ CommandStart(Line) = None
  /\ diag' = Some([kind |-> "not enough elements", file |-> fi, line |-> li - 1])
  /\ li' = li + 1
  /\ UNCHANGED <<crontabs, pc, fi, loadNow, jobs, lock, units, loopVars,
                 exitCode, histVars>>

\* main.rs 110-122
LoadNotEnough ==
  /\ AtItem
  /\ Item.ok
  /\ ~Ignored(Line)
  /\ CommandStart(Line) = None
  /\ Die([kind |-> "not enough elements", file |-> fi, line |-> li - 1])
  /\ UNCHANGED <<crontabs, loadVars, jobs, lock, units, loopVars, histVars>>

\* The result of parsing the schedule of a line that has a command.
Parsed(line) ==
  ParseSchedule(Normalize(ScheduleText(line, Get(CommandStart(line)))))

\* main.rs 125-139
LoadParseFail ==
  /\ AtItem
  /\ Item.ok
  /\ ~Ignored(Line)
  /\ CommandStart(Line) # None
  /\ Parsed(Line) = None
  /\ Die([kind |-> "parse error", file |-> fi, line |-> li - 1])
  /\ UNCHANGED <<crontabs, loadVars, jobs, lock, units, loopVars, histVars>>

\* Mutant of NewJob: the id is the index in the table, from 0.
NewJobFromZero(line, t, n) ==
  LET cur == AfterOwned(Get(Parsed(line)), t)
  IN [id |-> n,
      upcoming |-> CursorAdvance(cur),
      next |-> CursorNext(cur),
      command |-> CommandText(line, Get(CommandStart(line))),
      is_running |-> FALSE]

\* main.rs 141-150: the Job pushed for a line.
NewJob(line, t, n) ==
  LET cur == AfterOwned(Get(Parsed(line)), t)
  IN [id |-> n + 1,
      upcoming |-> CursorAdvance(cur),
      next |-> CursorNext(cur),
      command |-> CommandText(line, Get(CommandStart(line))),
      is_running |-> FALSE]

\* main.rs 141-151
LoadPush ==
  /\ AtItem
  /\ Item.ok
  /\ ~Ignored(Line)
  /\ CommandStart(Line) # None
  /\ Parsed(Line) # None
  /\ jobs' = Append(jobs, NewJob(Line, loadNow, Len(jobs)))
  /\ lock' = Append(lock, Unlocked)
  /\ units' = Append(units, EmptyBag)
  /\ last' = Append(last, None)
  /\ runs' = Append(runs, 0)
  /\ li' = li + 1
  /\ UNCHANGED <<crontabs, pc, fi, loadNow, loopVars, exitCode, diag>>

Load ==
  \/ Usage
  \/ Start
  \/ LoadOpenFail
  \/ LoadOpen
  \/ LoadEof
  \/ LoadReadFail
  \/ LoadSkip
  \/ LoadNotEnough
  \/ LoadParseFail
  \/ LoadPush

\* ------------------------------------------------------------------ main: the loop

\* Mutant of Min: the later of the two times.
MinLater(a, b) == IF a <= b THEN b ELSE a

\* main.rs 58: Ord::min
Min(a, b) == IF a <= b THEN a ELSE b

\* main.rs 43-47: a new iteration.  The wall clock may show any time.
LoopBegin ==
  /\ pc = "loop"
  /\ \E t \in 0..MaxNow : now' = t /\ next_min' = t + Minute
  /\ ji' = 1
  /\ pc' = "for"
  /\ UNCHANGED <<crontabs, loadVars, jobs, lock, units, delay, exitCode,
                 diag, histVars>>

\* main.rs 52-62: the job has a fire time that is not in the future
Due(job, t) == IsSome(job.next) /\ ~(t < Get(job.next))

\* Mutant of LoopLock: the loop waits for the job's execution to end.
LoopLockJoins ==
  /\ pc = "for"
  /\ ji <= Len(jobs)
  /\ lock[ji] = Unlocked
  /\ ~jobs[ji].is_running
  /\ Due(jobs[ji], now) => BagCardinality(units[ji]) < MaxUnits
  /\ lock' = [lock EXCEPT ![ji] = ByMain]
  /\ pc' = "inspect"
  /\ UNCHANGED <<crontabs, loadVars, jobs, units, loopVars, exitCode, diag,
                 histVars>>

\* main.rs 48-49: job_handle.lock().  The loop comes to a job that is due
\* only when the job has fewer than MaxUnits live threads (the bound of the
\* model on the threads of a job).
LoopLock ==
  /\ pc = "for"
  /\ ji <= Len(jobs)
  /\ lock[ji] = Unlocked
  /\ Due(jobs[ji], now) => BagCardinality(units[ji]) < MaxUnits
  /\ lock' = [lock EXCEPT ![ji] = ByMain]
  /\ pc' = "inspect"
  /\ UNCHANGED <<crontabs, loadVars, jobs, units, loopVars, exitCode, diag,
                 histVars>>

\* The guard is dropped and the for loop moves on.
NextJob ==
  /\ lock' = [lock EXCEPT ![ji] = Unlocked]
  /\ ji' = ji + 1
  /\ pc' = "for"

\* Mutant of LoopNever: a job without a next is run all the same.
LoopNeverRuns ==
  /\ pc = "inspect"
  /\ jobs[ji].next = None
  /\ units' = [units EXCEPT ![ji] = Plus(@, [pc |-> "spawned", result |-> "none", late |-> FALSE])]
  /\ pc' = "catchup"
  /\ UNCHANGED <<crontabs, loadVars, jobs, lock, loopVars, exitCode, diag,
                 histVars>>

\* main.rs 51-54: the schedule is exhausted
LoopNever ==
  /\ pc = "inspect"
  /\ jobs[ji].next = None
  /\ NextJob
  /\ UNCHANGED <<crontabs, loadVars, jobs, units, now, next_min, delay,
                 exitCode, diag, histVars>>

\* Mutant of LoopFuture: the next of a due job is folded in as well.
LoopFoldsDue ==
  /\ pc = "inspect"
  /\ IsSome(jobs[ji].next)
  /\ next_min' = Min(Get(jobs[ji].next), next_min)
  /\ NextJob
  /\ UNCHANGED <<crontabs, loadVars, jobs, units, now, delay, exitCode,
                 diag, histVars>>

\* main.rs 56-60: not due yet
LoopFuture ==
  /\ pc = "inspect"
  /\ IsSome(jobs[ji].next)
  /\ now < Get(jobs[ji].next)
  /\ next_min' = Min(Get(jobs[ji].next), next_min)
  /\ NextJob
  /\ UNCHANGED <<crontabs, loadVars, jobs, units, now, delay, exitCode,
                 diag, histVars>>

\* main.rs 154-155: thread::spawn.  The new thread has yet to run; `late`
\* records whether the job was running when it was dispatched.
NewThread(job) ==
  [pc |-> "spawned", result |-> "none", late |-> job.is_running]

\* Mutant of LoopRunJob: a due job is passed over while another job runs.
LoopRunJobWhenIdle ==
  /\ pc = "inspect"
  /\ Due(jobs[ji], now)
  /\ IF \E k \in DOMAIN jobs : k # ji /\ jobs[k].is_running
       THEN /\ NextJob
            /\ UNCHANGED <<crontabs, loadVars, jobs, units, now, next_min,
                           delay, exitCode, diag, histVars>>
       ELSE /\ units' = [units EXCEPT ![ji] = Plus(@, NewThread(jobs[ji]))]
            /\ last' = [last EXCEPT ![ji] = Some([fire |-> Get(jobs[ji].next), now |-> now])]
            /\ runs' = [runs EXCEPT ![ji] = @ + 1]
            /\ pc' = "catchup"
            /\ UNCHANGED <<crontabs, loadVars, jobs, lock, loopVars, exitCode,
                           diag>>

\* main.rs 62-63: the job is due, run_job
LoopRunJob ==
  /\ pc = "inspect"
  /\ Due(jobs[ji], now)
  /\ units' = [units EXCEPT ![ji] = Plus(@, NewThread(jobs[ji]))]
  /\ last' = [last EXCEPT ![ji] = Some([fire |-> Get(jobs[ji].next), now |-> now])]
  /\ runs' = [runs EXCEPT ![ji] = @ + 1]
  /\ pc' = "catchup"
  /\ UNCHANGED <<crontabs, loadVars, jobs, lock, loopVars, exitCode, diag>>

\* Mutant of Behind: a fire time equal to `now` counts as still to come.
BehindStrict(job, t) == IsSome(job.next) /\ t > Get(job.next)

\* Mutant of Behind: no catching up.
BehindNever(job, t) == FALSE

\* main.rs 66: the condition of the while loop
Behind(job, t) == IsSome(job.next) /\ t >= Get(job.next)

\* Mutant of Draw: the loop clears is_running as it advances the job.
DrawClearsRunning(job) ==
  [job EXCEPT !.next = CursorNext(job.upcoming),
              !.upcoming = CursorAdvance(job.upcoming),
              !.is_running = FALSE]

\* main.rs 67: job.next = job.upcoming.next()
Draw(job) ==
  [job EXCEPT !.next = CursorNext(job.upcoming),
              !.upcoming = CursorAdvance(job.upcoming)]

\* main.rs 66-68: one round of the while loop
LoopDraw ==
  /\ pc = "catchup"
  /\ Behind(jobs[ji], now)
  /\ jobs' = [jobs EXCEPT ![ji] = Draw(jobs[ji])]
  /\ UNCHANGED <<crontabs, pc, loadVars, lock, units, loopVars, exitCode,
                 diag, histVars>>

\* main.rs 66-69: the while loop ends
LoopCaughtUp ==
  /\ pc = "catchup"
  /\ ~Behind(jobs[ji], now)
  /\ NextJob
  /\ UNCHANGED <<crontabs, loadVars, jobs, units, now, next_min, delay,
                 exitCode, diag, histVars>>

\* main.rs 74-77: the delay is computed, and a negative one panics the main
\* thread; otherwise thread::sleep(delay)
LoopSleep ==
  /\ pc = "for"
  /\ ji > Len(jobs)
  /\ delay' = next_min - now
  /\ pc' = IF next_min - now < 0 THEN "panicked" ELSE "sleep"
  /\ UNCHANGED <<crontabs, loadVars, jobs, lock, units, now, next_min, ji,
                 exitCode, diag, histVars>>

\* main.rs 77-78, 42: the sleep is over and the iteration with it (its
\* locals are gone)
LoopWake ==
  /\ pc = "sleep"
  /\ pc' = "loop"
  /\ now' = 0
  /\ next_min' = 0
  /\ ji' = 0
  /\ delay' = 0
  /\ runs' = [j \in DOMAIN jobs |-> 0]
  /\ UNCHANGED <<crontabs, loadVars, jobs, lock, units, exitCode, diag, last>>

Loop ==
  \/ LoopBegin
  \/ LoopLock
  \/ LoopNever
  \/ LoopFuture
  \/ LoopRunJob
  \/ LoopDraw
  \/ LoopCaughtUp
  \/ LoopSleep
  \/ LoopWake

\* ------------------------------------------------------------------ run_job's thread

\* The live threads of job j that are at `at`.
ThreadsAt(j, at) == {u \in BagToSet(units[j]) : u.pc = at}

unitFrame == <<crontabs, pc, loadVars, loopVars, exitCode, diag, histVars>>

\* main.rs 157: job_handle.lock()
UnitLock(j) ==
  \E u \in ThreadsAt(j, "spawned") :
    /\ lock[j] = Unlocked
    /\ lock' = [lock EXCEPT ![j] = ByUnit]
    /\ units' = [units EXCEPT ![j] = Becomes(@, u, [u EXCEPT !.pc = "gate"])]
    /\ UNCHANGED <<jobs, unitFrame>>

\* Mutant of Overlaps: no overlap test.
OverlapsNever(job) == FALSE

\* main.rs 160: the overlap test
Overlaps(job) == job.is_running

\* Mutant of UnitOverlap: the thread drops the guard and tries again later.
UnitOverlapRequeue(j) ==
  \E u \in ThreadsAt(j, "gate") :
    /\ jobs[j].is_running
    /\ lock' = [lock EXCEPT ![j] = Unlocked]
    /\ units' = [units EXCEPT ![j] = Becomes(@, u, [u EXCEPT !.pc = "spawned"])]
    /\ UNCHANGED <<jobs, unitFrame>>

\* main.rs 159-162: the job is running; the thread returns
UnitOverlap(j) ==
  \E u \in ThreadsAt(j, "gate") :
    /\ Overlaps(jobs[j])
    /\ lock' = [lock EXCEPT ![j] = Unlocked]
    /\ units' = [units EXCEPT ![j] = Minus(@, u)]
    /\ UNCHANGED <<jobs, unitFrame>>

\* Mutant of UnitClaim: the guard is kept while the command runs.
UnitClaimKeepsGuard(j) ==
  \E u \in ThreadsAt(j, "gate") :
    /\ ~jobs[j].is_running
    /\ jobs' = [jobs EXCEPT ![j].is_running = TRUE]
    /\ units' = [units EXCEPT ![j] = Becomes(@, u, [u EXCEPT !.pc = "command"])]
    /\ UNCHANGED <<lock, unitFrame>>

\* main.rs 163-170: is_running = true, the guard is dropped
UnitClaim(j) ==
  \E u \in ThreadsAt(j, "gate") :
    /\ ~Overlaps(jobs[j])
    /\ jobs' = [jobs EXCEPT ![j].is_running = TRUE]
    /\ lock' = [lock EXCEPT ![j] = Unlocked]
    /\ units' = [units EXCEPT ![j] = Becomes(@, u, [u EXCEPT !.pc = "command"])]
    /\ UNCHANGED unitFrame

\* Mutant of UnitSpawnFail: the thread returns on the error.
UnitSpawnFailReturns(j) ==
  \E u \in ThreadsAt(j, "command") :
    /\ units' = [units EXCEPT ![j] = Minus(@, u)]
    /\ UNCHANGED <<jobs, lock, unitFrame>>

\* main.rs 172-175: command.spawn() fails
UnitSpawnFail(j) ==
  \E u \in ThreadsAt(j, "command") :
    /\ units' = [units EXCEPT ![j] =
         Becomes(@, u, [u EXCEPT !.pc = "finished", !.result = "spawn failed"])]
    /\ UNCHANGED <<jobs, lock, unitFrame>>

\* Mutant of UnitSpawn: the thread goes on without starting the process.
UnitSpawnSkipped(j) ==
  \E u \in ThreadsAt(j, "command") :
    /\ units' = [units EXCEPT ![j] =
         Becomes(@, u, [u EXCEPT !.pc = "finished", !.result = "success"])]
    /\ UNCHANGED <<jobs, lock, unitFrame>>

\* main.rs 172, 176: command.spawn() starts the process
UnitSpawn(j) ==
  \E u \in ThreadsAt(j, "command") :
    /\ units' = [units EXCEPT ![j] = Becomes(@, u, [u EXCEPT !.pc = "wait"])]
    /\ UNCHANGED <<jobs, lock, unitFrame>>

\* Mutant of UnitWait: the thread returns when the wait fails.
UnitWaitReturns(j) ==
  \E u \in ThreadsAt(j, "wait") :
    \E r \in {"wait failed", "status", "success"} :
      /\ units' = [units EXCEPT ![j] =
           IF r = "wait failed" THEN Minus(@, u)
           ELSE Becomes(@, u, [u EXCEPT !.pc = "finished", !.result = r])]
      /\ UNCHANGED <<jobs, lock, unitFrame>>

\* main.rs 176-184: proc.wait() returns
UnitWait(j) ==
  \E u \in ThreadsAt(j, "wait") :
    \E r \in {"wait failed", "status", "success"} :
      /\ units' = [units EXCEPT ![j] =
           Becomes(@, u, [u EXCEPT !.pc = "finished", !.result = r])]
      /\ UNCHANGED <<jobs, lock, unitFrame>>

\* main.rs 187: job_handle.lock()
UnitRelock(j) ==
  \E u \in ThreadsAt(j, "finished") :
    /\ lock[j] = Unlocked
    /\ lock' = [lock EXCEPT ![j] = ByUnit]
    /\ units' = [units EXCEPT ![j] = Becomes(@, u, [u EXCEPT !.pc = "reset"])]
    /\ UNCHANGED <<jobs, unitFrame>>

\* main.rs 188-189: is_running = false, the thread ends
UnitReset(j) ==
  \E u \in ThreadsAt(j, "reset") :
    /\ jobs' = [jobs EXCEPT ![j].is_running = FALSE]
    /\ lock' = [lock EXCEPT ![j] = Unlocked]
    /\ units' = [units EXCEPT ![j] = Minus(@, u)]
    /\ UNCHANGED unitFrame

Unit ==
  \E j \in DOMAIN jobs :
    \/ UnitLock(j)
    \/ UnitOverlap(j)
    \/ UnitClaim(j)
    \/ UnitSpawnFail(j)
    \/ UnitSpawn(j)
    \/ UnitWait(j)
    \/ UnitRelock(j)
    \/ UnitReset(j)

\* ------------------------------------------------------------------ specification

Next == Load \/ Loop \/ Unit

Spec == Init /\ [][Next]_vars

\* The most jobs an argument list of the menu makes.
RECURSIVE Items(_)
Items(args) ==
  IF args = <<>> THEN 0 ELSE Len(Head(args).lines) + Items(Tail(args))

MaxJobs == CHOOSE n \in 0..Cardinality(ArgMenu) * 4 :
  /\ \A a \in ArgMenu : Items(a) <= n
  /\ \E a \in ArgMenu : Items(a) = n

\* Fair scheduling of the threads: the scheduler loop keeps running, a thread
\* that can take a step takes it, a thread that waits for a Mutex that is
\* free again and again gets it, and a child process ends.
Fairness ==
  /\ WF_vars(Loop)
  /\ \A j \in 1..MaxJobs :
       /\ SF_vars(IF j \in DOMAIN jobs THEN UnitLock(j) ELSE FALSE)
       /\ WF_vars(IF j \in DOMAIN jobs THEN UnitOverlap(j) \/ UnitClaim(j) ELSE FALSE)
       /\ WF_vars(IF j \in DOMAIN jobs THEN UnitSpawnFail(j) \/ UnitSpawn(j) ELSE FALSE)
       /\ WF_vars(IF j \in DOMAIN jobs THEN UnitWait(j) ELSE FALSE)
       /\ SF_vars(IF j \in DOMAIN jobs THEN UnitRelock(j) ELSE FALSE)
       /\ WF_vars(IF j \in DOMAIN jobs THEN UnitReset(j) ELSE FALSE)

\* The loader alone, on the lines of LoaderMenu.
LoaderInit == Entered(LoaderMenu)

LoaderSpec == LoaderInit /\ [][Load]_vars

\* The same program on the argument lists that make at most one job.
OneJobInit == Init /\ crontabs # TwoJobs

OneJobSpec == OneJobInit /\ [][Next]_vars /\ Fairness

\* Fair scheduling of the threads when a child process may run forever:
\* as Fairness, but nothing makes proc.wait() return.
HangFairness ==
  /\ WF_vars(Loop)
  /\ \A j \in 1..MaxJobs :
       /\ SF_vars(IF j \in DOMAIN jobs THEN UnitLock(j) ELSE FALSE)
       /\ WF_vars(IF j \in DOMAIN jobs THEN UnitOverlap(j) \/ UnitClaim(j) ELSE FALSE)
       /\ WF_vars(IF j \in DOMAIN jobs THEN UnitSpawnFail(j) \/ UnitSpawn(j) ELSE FALSE)
       /\ SF_vars(IF j \in DOMAIN jobs THEN UnitRelock(j) ELSE FALSE)
       /\ WF_vars(IF j \in DOMAIN jobs THEN UnitReset(j) ELSE FALSE)

HangSpec == OneJobInit /\ [][Next]_vars /\ HangFairness

\* Wall-clock time keeps advancing: again and again the loop reads a time
\* that is past every fire time of the calendar.
ClockAdvances == SF_vars(LoopBegin /\ now' = MaxNow)

ClockSpec == OneJobInit /\ [][Next]_vars /\ HangFairness /\ ClockAdvances

\* ------------------------------------------------------------------ properties

LoopPcs == {"loop", "for", "inspect", "catchup", "sleep", "panicked"}

\* The threads of job j that have set is_running and not yet reset it.
InFlight(j) ==
  {u \in BagToSet(units[j]) : u.pc \in {"command", "wait", "finished", "reset"}}

InFlightCount(j) == BagCardinality([u \in InFlight(j) |-> units[j][u]])

\* The step in which the loop calls run_job for job j.
Dispatch(j) == pc = "inspect" /\ pc' = "catchup" /\ ji = j

\* C1: at most one execution of a job is in flight at any time, and
\* is_running is true exactly while one is.
C1Inv ==
  \A j \in DOMAIN jobs :
    /\ InFlightCount(j) <= 1
    /\ jobs[j].is_running <=> InFlightCount(j) = 1

\* C1: a thread that finds is_running true leaves the gate without becoming
\* an execution in flight.
C1Step ==
  \A j \in DOMAIN jobs :
    (ThreadsAt(j, "gate") # {} /\ jobs[j].is_running /\ lock'[j] # ByUnit)
      => InFlightCount(j)' = InFlightCount(j)

\* C1: at most one execution of a job is in flight at any time, is_running
\* is true exactly while one is, and a thread that finds is_running true
\* starts no process.
C1_SingleFlight == []C1Inv /\ [][C1Step]_vars

\* C1: a thread is at the gate of a job that is running.
C1_Witness ==
  \E j \in DOMAIN jobs : jobs[j].is_running /\ ThreadsAt(j, "gate") # {}

\* C2: the fire time dispatched is not after `now` and is later than the
\* fire time dispatched before it.
C2Step ==
  \A j \in DOMAIN jobs :
    Dispatch(j) =>
      /\ Get(jobs[j].next) <= now
      /\ IsSome(last[j]) => Get(last[j]).fire < Get(jobs[j].next)

\* C2: once the loop has let go of a job it dispatched, the job's next is
\* none or later than the fire time dispatched.
C2Inv ==
  \A j \in DOMAIN jobs :
    (IsSome(last[j]) /\ lock[j] # ByMain) =>
      \/ jobs[j].next = None
      \/ Get(jobs[j].next) > Get(last[j]).fire

\* C2: the fire times a job is dispatched for are strictly increasing, each
\* is at most the `now` of its iteration, and next is advanced beyond it (or
\* to none) before the job is looked at again, whatever the clock shows.
C2_FireTimesIncrease == []C2Inv /\ [][C2Step]_vars

\* C2: a job that was dispatched before is found due again.
C2_Witness ==
  /\ pc = "inspect"
  /\ IsSome(last[ji])
  /\ Due(jobs[ji], now)

\* The fire times of job j from the one dispatched up to `now`.
Missed(j) ==
  {t \in 0..CalendarEnd :
     /\ Fires(jobs[j].upcoming.schedule, t)
     /\ Get(last[j]).fire <= t
     /\ t <= now}

\* C3: a job dispatched in this iteration with two or more fire times
\* passed was dispatched once, and its next is the first fire time after
\* `now`, or none.
C3Inv ==
  \A j \in DOMAIN jobs :
    (runs[j] >= 1 /\ lock[j] # ByMain /\ Cardinality(Missed(j)) >= 2) =>
      /\ runs[j] = 1
      /\ jobs[j].next = NextAfter(jobs[j].upcoming.schedule, now)

\* C3: a later dispatch is for a fire time after the `now` of the iteration
\* that dispatched the job before.
C3Step ==
  \A j \in DOMAIN jobs :
    (Dispatch(j) /\ IsSome(last[j])) => Get(jobs[j].next) > Get(last[j]).now

\* C3: a late iteration dispatches a job once for all the fire times that
\* have passed, leaves its next at the first fire time after `now` (or
\* none), and no later iteration dispatches it for a fire time it passed.
C3_LateWakeOnce == []C3Inv /\ [][C3Step]_vars

\* C3: an iteration has dispatched a job past two fire times and a fire time
\* is left.
C3_Witness ==
  \E j \in DOMAIN jobs :
    /\ runs[j] = 1
    /\ lock[j] # ByMain
    /\ Cardinality(Missed(j)) >= 2
    /\ IsSome(jobs[j].next)

\* C4 as claimed: a thread dispatched while the job was running never starts
\* a process.
C4_LateDispatchNeverStarts ==
  \A j \in DOMAIN jobs :
    \A u \in BagToSet(units[j]) : u.late => u.pc \in {"spawned", "gate"}

\* C4 as amended: a thread that finds is_running true once it holds the
\* job's lock ends there: it is gone from the job's threads and the job is
\* as it was.
C4Step ==
  \A j \in DOMAIN jobs :
    \A u \in ThreadsAt(j, "gate") :
      (jobs[j].is_running /\ lock'[j] # ByUnit) =>
        /\ units'[j] = Minus(units[j], u)
        /\ jobs' = jobs

\* C4 as amended: a dispatch whose thread finds the job running when it takes
\* the job's lock is a silent no-op, then and later.
C4_OverlapSkipped == [][C4Step]_vars

\* C4: a thread dispatched while the job was running is at the gate and the
\* job is running.
C4_Witness ==
  \E j \in DOMAIN jobs :
    \E u \in ThreadsAt(j, "gate") : u.late /\ jobs[j].is_running

\* C5: the steps of an execution leave the loop and the other jobs alone,
\* its end resets is_running whatever the outcome, and threads and
\* processes are started by a dispatch of a due job only.
C5Step ==
  \A j \in DOMAIN jobs :
    /\ (ThreadsAt(j, "finished") = {} /\ ThreadsAt(j, "finished")' # {}) =>
         /\ jobs' = jobs
         /\ lock' = lock
         /\ pc' = pc
         /\ exitCode' = exitCode
         /\ InFlightCount(j)' = InFlightCount(j)
         /\ \A i \in DOMAIN jobs \ {j} : units'[i] = units[i]
    /\ InFlightCount(j)' < InFlightCount(j) =>
         /\ jobs' = [jobs EXCEPT ![j].is_running = FALSE]
         /\ pc' = pc
         /\ exitCode' = exitCode
         /\ \A i \in DOMAIN jobs \ {j} : units'[i] = units[i] /\ lock'[i] = lock[i]
    /\ BagCardinality(units'[j]) > BagCardinality(units[j]) =>
         /\ pc = "inspect"
         /\ ji = j
         /\ Due(jobs[j], now)
    /\ InFlightCount(j)' > InFlightCount(j) =>
         /\ ThreadsAt(j, "gate") # {}
         /\ ~jobs[j].is_running

\* C5: the loop, once entered, is neither left nor aborted.
C5Inv == pc \in LoopPcs => (pc # "panicked" /\ exitCode = None)

\* C5: a failure of a job's execution never aborts the loop or touches
\* another job, leaves the job as a success does, and is not retried before
\* the job's next dispatch.
C5_FailureIsolated == []C5Inv /\ [][C5Step]_vars

\* C5: of two jobs, one has an execution that failed and is about to reset
\* is_running.
C5_Witness ==
  /\ Len(jobs) = 2
  /\ \E j \in DOMAIN jobs :
       \E u \in ThreadsAt(j, "reset") : u.result \in {"spawn failed", "wait failed", "status"}

\* C6: under fair scheduling, and with child processes that end, a job that
\* is running (a thread has set is_running) stops running (the thread has
\* reset it), whatever the outcome.
C6_RunningEnds ==
  \A j \in 1..MaxJobs :
    (IF j \in DOMAIN jobs THEN jobs[j].is_running ELSE FALSE)
      ~> (IF j \in DOMAIN jobs
            THEN jobs[j].is_running = FALSE /\ InFlight(j) = {}
            ELSE FALSE)

\* C6: an execution whose wait failed is about to reset is_running.
C6_Witness ==
  \E j \in DOMAIN jobs :
    \E u \in ThreadsAt(j, "reset") : u.result = "wait failed" /\ jobs[j].is_running

\* The items of argument f that are neither blank nor comments.
NotIgnored(it) == ~Ignored(Trim(it.text))
Kept(f) == SelectSeq(crontabs[f].lines, NotIgnored)

\* The kept items of the first n arguments, in order.
RECURSIVE AllKept(_)
AllKept(n) == IF n = 0 THEN <<>> ELSE AllKept(n - 1) \o Kept(n)

\* The number of schedule tokens the line's syntax requires.
ScheduleTokens(line) == IF StartsWith(line, "@") THEN 1 ELSE 5

\* A line that the loader must not accept.
TooFew(line) == Len(SplitWhitespace(line)) < ScheduleTokens(line) + 1
BadItem(it) ==
  \/ ~it.ok
  \/ /\ NotIgnored(it)
     /\ \/ TooFew(Trim(it.text))
        \/ Parsed(Trim(it.text)) = None
BadArgs(args) ==
  \E f \in DOMAIN args :
    \/ ~args[f].openable
    \/ \E i \in DOMAIN args[f].lines : BadItem(args[f].lines[i])

\* The argument lists of the menu that must not be accepted.
BadMenu == {args \in ArgMenu : BadArgs(args)}

\* C7: with a file that cannot be opened or read, or a line with too few
\* fields or a schedule the engine rejects, the process never enters the
\* loop, exits with status 1 and a diagnostic, and no job is ever
\* dispatched or run.
C7_BadInputNeverRuns ==
  crontabs \in BadMenu =>
    /\ pc \in {"start", "open", "read", "exited"}
    /\ pc = "exited" => (exitCode = Some(1) /\ IsSome(diag))
    /\ \A j \in DOMAIN jobs :
         /\ units[j] = EmptyBag
         /\ last[j] = None
         /\ ~jobs[j].is_running

\* C7: the process has exited on the second file with a job of the first
\* file in the table.
C7_Witness ==
  /\ pc = "exited"
  /\ Len(jobs) >= 1
  /\ IsSome(diag)
  /\ Get(diag).file = 2

\* C8: when the load is over the table has one job for each line that is
\* neither blank nor a comment, in argument order then line order, with ids
\* 1..N and is_running false, and nothing was printed.
C8_TableAfterLoad ==
  pc = "loop" =>
    LET K == AllKept(Len(crontabs))
    IN /\ Len(jobs) = Len(K)
       /\ diag = None
       /\ exitCode = None
       /\ \A n \in DOMAIN jobs :
            /\ jobs[n].id = n
            /\ ~jobs[n].is_running
            /\ Some(jobs[n].upcoming.schedule) = Parsed(Trim(K[n].text))
            /\ \E k \in 1..Len(K[n].text) :
                 jobs[n].command = SubSeq(Trim(K[n].text), k, Len(Trim(K[n].text)))

\* C8: two files, an ignored line among them, have made jobs 1 and 2.
C8_Witness ==
  /\ pc = "loop"
  /\ Len(crontabs) = 2
  /\ Len(jobs) = 2
  /\ jobs[2].id = 2
  /\ \E i \in DOMAIN crontabs[2].lines : ~NotIgnored(crontabs[2].lines[i])

\* C9: the command of a job is the rest of the trimmed line from the first
\* character of the token after the schedule, whitespace kept: what comes
\* before it in the line has exactly the schedule's tokens and ends in
\* whitespace, and the two together are the line.
C9_CommandVerbatim ==
  LET K == AllKept(Len(crontabs))
  IN \A n \in DOMAIN jobs :
       LET line == Trim(K[n].text)
           cmd == jobs[n].command
           pre == SubSeq(line, 1, Len(line) - Len(cmd))
       IN /\ cmd # <<>>
          /\ Len(cmd) < Len(line)
          /\ pre \o cmd = line
          /\ ~IsWs(cmd[1])
          /\ IsWs(pre[Len(pre)])
          /\ Len(SplitWhitespace(pre)) = ScheduleTokens(line)

\* C9: a job's command has a run of two spaces in it, from a line with
\* whitespace around it.
C9_Witness ==
  \E n \in DOMAIN jobs :
    /\ jobs[n].command = <<"a", " ", " ", "b">>
    /\ IsWs(Head(AllKept(Len(crontabs))[n].text))

\* C10: the candidate wake time is at most one minute after `now`, and so is
\* the sleep.
C10Inv ==
  /\ pc \in {"for", "inspect", "catchup"} => next_min <= now + Minute
  /\ pc = "sleep" => delay <= Minute

\* C10: within an iteration the candidate wake time is only lowered, to the
\* next of a job that is not due.
C10Step ==
  (pc \in {"for", "inspect", "catchup"} /\ next_min' # next_min) =>
    /\ next_min' < next_min
    /\ jobs[ji].next = Some(next_min')
    /\ now < next_min'

\* C10: the sleep requested is at most one minute, for any job table and
\* any clock.
C10_SleepAtMostMinute == []C10Inv /\ [][C10Step]_vars

\* C10: the loop sleeps less than a minute, until a job's next.
C10_Witness ==
  /\ pc = "sleep"
  /\ 0 < delay
  /\ delay < Minute

\* C11: when the loop goes to sleep, the wake time is at most one minute
\* after `now` and never later than the next of any job that has one, the
\* jobs dispatched and advanced in the same iteration included.
C11_WakeAtNearestFire ==
  pc = "sleep" =>
    /\ next_min <= now + Minute
    /\ \A j \in DOMAIN jobs :
         IsSome(jobs[j].next) => next_min <= Get(jobs[j].next)

\* C12: inside an iteration the candidate wake time is after `now`, the
\* main thread never panics and the process does not exit; the delay slept
\* is the candidate wake time minus `now`.
C12Inv ==
  /\ pc # "panicked"
  /\ pc \in LoopPcs => exitCode = None
  /\ pc \in {"for", "inspect", "catchup"} => now < next_min
  /\ pc = "sleep" => (delay = next_min - now /\ delay > 0)

\* C12: the step after the last job goes to the sleep, with a delay that
\* to_std accepts.
C12Step ==
  (pc = "for" /\ ji > Len(jobs) /\ pc' # pc) =>
    /\ pc' = "sleep"
    /\ delay' = next_min - now
    /\ delay' >= 0

\* C12: the loop never fails at its sleep step, whatever the fire times
\* and the clock, with due jobs or without; the delay is slept.
C12_SleepNeverFails == []C12Inv /\ [][C12Step]_vars

\* C12: the loop sleeps at the end of an iteration that dispatched a job.
C12_Witness ==
  /\ pc = "sleep"
  /\ \E j \in DOMAIN jobs : runs[j] > 0

\* C13: a job whose next is none keeps it none and keeps its cursor, is not
\* dispatched, and leaves the candidate wake time alone when the loop
\* inspects it.
C13Step ==
  \A j \in DOMAIN jobs :
    jobs[j].next = None =>
      /\ jobs'[j].next = None
      /\ jobs'[j].upcoming = jobs[j].upcoming
      /\ ~Dispatch(j)
      /\ BagCardinality(units'[j]) <= BagCardinality(units[j])
      /\ (pc = "inspect" /\ ji = j) => next_min' = next_min

\* C13: a job without a next has no fire time left in its cursor.
C13Inv ==
  \A j \in DOMAIN jobs :
    jobs[j].next = None => CursorNext(jobs[j].upcoming) = None

\* C13: an exhausted schedule is absorbing: next stays none, the cursor is
\* not drawn from again, the job is not dispatched again and adds nothing to
\* the candidate wake time.
C13_ExhaustedAbsorbing == []C13Inv /\ [][C13Step]_vars

\* C13: the loop has passed a job whose schedule is exhausted and has just
\* dispatched a later job of the table.
C13_Witness ==
  /\ pc = "catchup"
  /\ runs[ji] = 1
  /\ \E j \in 1..(ji - 1) : jobs[j].next = None

\* The number of threads of job j that hold a guard of its Mutex.
Holders(j) ==
  BagCardinality([u \in ThreadsAt(j, "gate") \cup ThreadsAt(j, "reset") |-> units[j][u]])

\* C14: the loop holds the lock of the job it inspects and no other, and
\* none between two jobs or while it sleeps; a job's lock is held by a
\* thread of that job exactly while the thread tests or resets is_running,
\* so not while it starts the child process or waits for it.
C14Inv ==
  /\ pc \in {"inspect", "catchup"} => lock[ji] = ByMain
  /\ \A j \in DOMAIN jobs :
       /\ lock[j] = ByMain => (pc \in {"inspect", "catchup"} /\ ji = j)
       /\ lock[j] = ByUnit => Holders(j) = 1
       /\ lock[j] # ByUnit => Holders(j) = 0

\* C14: a step of a thread changes the lock of its own job only, and the
\* loop takes a lock only when it holds none.
C14Step ==
  \A j \in DOMAIN jobs :
    lock'[j] # lock[j] =>
      /\ \A k \in DOMAIN jobs : k # j => (lock'[k] = lock[k] /\ units'[k] = units[k])
      /\ lock'[j] = ByMain => \A k \in DOMAIN jobs : lock[k] # ByMain
      /\ (lock'[j] = ByUnit \/ lock[j] = ByUnit) => units'[j] # units[j]

\* C14: no job lock is held during a blocking operation.
C14_LockDiscipline == []C14Inv /\ [][C14Step]_vars

\* C14: the loop holds the lock of a job while a thread of that job waits
\* for its child process.
C14_Witness ==
  \E j \in DOMAIN jobs :
    /\ lock[j] = ByMain
    /\ ThreadsAt(j, "wait") # {}

\* C15: under fair scheduling of the threads, and with nothing that makes a
\* child process exit, every iteration of the loop reaches its sleep and
\* every sleep is followed by a new iteration: the loop never waits for a
\* job's execution and never deadlocks with the threads on a job's lock.
C15_LoopNeverBlocks ==
  /\ [](pc \in {"loop", "for", "inspect", "catchup"} => <>(pc = "sleep"))
  /\ [](pc = "sleep" => <>(pc = "for"))

\* C15: the loop sleeps at the end of a whole iteration during which the
\* child process of a job dispatched in an earlier iteration has not exited.
C15_Witness ==
  /\ pc = "sleep"
  /\ \E j \in DOMAIN jobs :
       /\ runs[j] = 0
       /\ ThreadsAt(j, "wait") # {}

\* The jobs the for loop of the current iteration has dealt with.
Passed == IF pc = "catchup" THEN 1..ji ELSE 1..(ji - 1)

\* C16: in an iteration, each job the loop has passed was dispatched once
\* if it was due and not at all otherwise, and no job further down the
\* table has been dispatched yet.
C16Inv ==
  pc \in {"for", "inspect", "catchup", "sleep"} =>
    \A j \in DOMAIN jobs :
      /\ runs[j] \in {0, 1}
      /\ j \notin Passed => runs[j] = 0
      /\ (j \in Passed /\ runs[j] = 1) =>
           (Get(last[j]).now = now /\ Get(last[j]).fire <= now)
      /\ (j \in Passed /\ runs[j] = 0 /\ (pc = "catchup" => j # ji)) =>
           ~Due(jobs[j], now)

\* C16: the loop dispatches the job it inspects exactly when the job is
\* due, whatever the other jobs are doing, and moves down the table.
C16Step ==
  /\ (pc = "inspect" /\ pc' # pc) =>
       IF Due(jobs[ji], now)
         THEN Dispatch(ji) /\ runs'[ji] = 1 /\ ji' = ji
         ELSE pc' = "for" /\ ji' = ji + 1 /\ runs' = runs /\ units' = units
  /\ \A j \in DOMAIN jobs :
       runs'[j] > runs[j] => (Dispatch(j) /\ Due(jobs[j], now))
  /\ (pc \in {"for", "inspect", "catchup"} /\ pc' # "sleep") => ji' >= ji

\* C16: within one iteration every due job gets exactly one dispatch, in
\* table order, and every other job none, whether or not other jobs are
\* running.
C16_EachDueJobOnce == []C16Inv /\ [][C16Step]_vars

\* C16: two jobs were dispatched in the same iteration, the second while
\* the first was running, and both have a child process at once.
C16_Witness ==
  /\ pc = "sleep"
  /\ Len(jobs) = 2
  /\ runs = <<1, 1>>
  /\ Get(last[2]).fire <= now
  /\ ThreadsAt(1, "wait") # {}
  /\ ThreadsAt(2, "wait") # {}

\* C17: the jobs of the table keep their id and command; next and the
\* cursor of a job change only in the catch-up loop of an iteration in which
\* the job was due and dispatched; is_running of a job changes only in a
\* step of one of its own threads.
C17Step ==
  \A j \in DOMAIN jobs :
    /\ jobs'[j].id = jobs[j].id
    /\ jobs'[j].command = jobs[j].command
    /\ (jobs'[j].next # jobs[j].next \/ jobs'[j].upcoming # jobs[j].upcoming) =>
         /\ pc = "catchup" /\ ji = j
         /\ runs[j] = 1
         /\ Get(last[j]).now = now
         /\ Get(last[j]).fire <= now
         /\ units' = units
         /\ jobs'[j].is_running = jobs[j].is_running
         /\ \A k \in DOMAIN jobs : k # j => jobs'[k] = jobs[k]
    /\ jobs'[j].is_running # jobs[j].is_running =>
         /\ units'[j] # units[j]
         /\ lock[j] = ByUnit
         /\ <<pc, loopVars>>' = <<pc, loopVars>>
         /\ \A k \in DOMAIN jobs : k # j => (jobs'[k] = jobs[k] /\ units'[k] = units[k])

\* C17: the frame conditions on the fields of a job.
C17_JobFrame == [][C17Step]_vars

\* C17: at the end of an iteration the first job, not due, has its next
\* and the second job was dispatched and advanced.
C17_Witness ==
  /\ pc = "sleep"
  /\ Len(jobs) = 2
  /\ runs = <<0, 1>>
  /\ IsSome(jobs[1].next)
  /\ jobs[2].next # Some(Get(last[2]).fire)

\* Job j was dispatched for the fire time f in an iteration whose `now` was
\* not before f, and its next has been moved past that `now`.
Served(j, f) ==
  /\ j \in DOMAIN jobs
  /\ IsSome(last[j])
  /\ Get(last[j]).fire = f
  /\ Get(last[j]).now >= f
  /\ ~Behind(jobs[j], Get(last[j]).now)

\* The scheduler has job j with the next fire time f (the values next takes
\* inside the catch-up loop, under the job's lock, are not fire times the
\* job waits for).
Awaits(j, f) ==
  /\ pc \in LoopPcs
  /\ j \in DOMAIN jobs
  /\ ~(pc = "catchup" /\ ji = j)
  /\ jobs[j].next = Some(f)

\* C18, first part: every fire time that is the next of a job is dispatched
\* in an iteration with now >= f, and the job's next is moved past that now.
C18Served ==
  \A j \in 1..MaxJobs : \A f \in 0..CalendarEnd :
    [](Awaits(j, f) => <>Served(j, f))

\* The threads of job j at `from` are one fewer and those at `to` one more.
Moves(j, from, to) ==
  /\ \E u \in ThreadsAt(j, from) : units'[j] = Becomes(units[j], u, [u EXCEPT !.pc = to])

\* C18 as stated, second part: a thread that takes the lock of a job that
\* is not running sets is_running, and its next step starts the process.
C18StartsProcess ==
  \A j \in DOMAIN jobs :
    /\ (units'[j] # units[j] /\ lock[j] = ByUnit /\ ThreadsAt(j, "gate") # {}
          /\ ~jobs[j].is_running) =>
         (jobs'[j].is_running /\ Moves(j, "gate", "command"))
    /\ (units'[j] # units[j] /\ ThreadsAt(j, "command")' # ThreadsAt(j, "command")
          /\ ThreadsAt(j, "command") # {} /\ lock'[j] = lock[j]) =>
         Moves(j, "command", "wait")

\* C18 as stated: no due job is starved, and a dispatch that finds the job
\* not running starts a process.
C18_DispatchStartsProcess == C18Served /\ [][C18StartsProcess]_vars

\* A thread of job j at "command" ends with a failure to start the process.
FailsToStart(j) ==
  \E u \in ThreadsAt(j, "command") :
    units'[j] = Becomes(units[j], u, [u EXCEPT !.pc = "finished", !.result = "spawn failed"])

\* C18: a thread that takes the lock of a job that is not running sets
\* is_running, and its next step starts the process or fails to start it.
C18TriesToStart ==
  \A j \in DOMAIN jobs :
    /\ (units'[j] # units[j] /\ lock[j] = ByUnit /\ ThreadsAt(j, "gate") # {}
          /\ ~jobs[j].is_running) =>
         (jobs'[j].is_running /\ Moves(j, "gate", "command"))
    /\ (units'[j] # units[j] /\ ThreadsAt(j, "command")' # ThreadsAt(j, "command")
          /\ ThreadsAt(j, "command") # {} /\ lock'[j] = lock[j]) =>
         (Moves(j, "command", "wait") \/ FailsToStart(j))

\* C18: a thread that has set is_running gets to the start of the process.
C18Attempts ==
  \A j \in 1..MaxJobs :
    []((IF j \in DOMAIN jobs THEN ThreadsAt(j, "command") # {} ELSE FALSE) =>
         <>(IF j \in DOMAIN jobs THEN ThreadsAt(j, "command") = {} ELSE FALSE))

\* C18: no due job is starved when the clock keeps advancing and the threads
\* are scheduled fairly: every fire time a job waits for is dispatched in an
\* iteration with now >= f and next is moved past that now; a dispatch whose
\* thread finds the job not running sets is_running and tries to start a
\* process, which starts unless starting it fails.
C18_NoStarvation == C18Served /\ C18Attempts /\ [][C18TriesToStart]_vars

\* C18: a job was dispatched for its fire time, its next was moved on, and
\* the thread of the dispatch, which found the job not running, has started
\* the process.
C18_Witness ==
  \E j \in DOMAIN jobs :
    /\ IsSome(last[j])
    /\ Served(j, Get(last[j]).fire)
    /\ pc = "sleep"
    /\ runs[j] = 1
    /\ \E u \in ThreadsAt(j, "wait") : ~u.late
    /\ BagCardinality(units[j]) = 1

\* A line that is neither blank nor a comment and is a complete schedule
\* with nothing after it: five fields, or a lone alias.
NoCommand(line) ==
  /\ ~Ignored(line)
  /\ Len(SplitWhitespace(line)) = ScheduleTokens(line)

\* The argument lists of the loader's menu that have such a line.
NoCommandMenu ==
  {args \in LoaderMenu :
     \E f \in DOMAIN args : \E i \in DOMAIN args[f].lines :
       args[f].lines[i].ok /\ NoCommand(Trim(args[f].lines[i].text))}

\* C19: no job has an empty command; a load that ended with 'not enough
\* elements' names a file and the 0-based index, among all the lines of
\* that file, of a line with too few tokens; and a table with a line that
\* has a schedule and no command is never loaded to the end.
C19Inv ==
  /\ \A j \in DOMAIN jobs : jobs[j].command # <<>>
  /\ (pc = "exited" /\ Get(diag).kind = "not enough elements") =>
       LET d == Get(diag)
           lines == crontabs[d.file].lines
       IN /\ exitCode = Some(1)
          /\ d.line + 1 \in DOMAIN lines
          /\ TooFew(Trim(lines[d.line + 1].text))
          /\ \A i \in 1..d.line : ~BadItem(lines[i])
  /\ crontabs \in NoCommandMenu => pc # "loop"

\* C19: when the loader comes to a line that has a schedule and no command,
\* its step is the fatal 'not enough elements', with the file and the number
\* of lines read before in that file; no job is pushed.
C19Step ==
  (AtItem /\ Item.ok /\ NoCommand(Line)) =>
    /\ pc' = "exited"
    /\ exitCode' = Some(1)
    /\ diag' = Some([kind |-> "not enough elements", file |-> fi, line |-> li - 1])
    /\ jobs' = jobs

\* C19: a line with a complete schedule and no command is rejected with
\* 'not enough elements', the file and the 0-based physical line number.
C19_NoCommandRejected == []C19Inv /\ [][C19Step]_vars

\* C19: the load has failed on a five-field line without a command that
\* follows a blank or comment line, and the diagnostic says line 1.
C19_Witness ==
  /\ pc = "exited"
  /\ Get(diag).kind = "not enough elements"
  /\ Get(diag).line = 1
  /\ LET lines == crontabs[Get(diag).file].lines
     IN /\ Ignored(Trim(lines[1].text))
        /\ NoCommand(Trim(lines[2].text))
        /\ ~StartsWith(Trim(lines[2].text), "@")

====
